---------------------------- MODULE Spec2Model ----------------------------
(***************************************************************************)
(* MouseOverlay (src/MouseOverlay/index.tsx): a stylesheet node, an        *)
(* overlay node, a queue of trail dots with removal timers, and a          *)
(* mousemove listener, driven by start(), stop(), mousemove events, timer  *)
(* callbacks and option changes.                                           *)
(*                                                                         *)
(* Conventions.                                                            *)
(*  - A node reference is a positive integer, NoNode is null.              *)
(*  - An optional value (a settings field, an inline style that has not    *)
(*    been assigned) is a sequence: <<>> is undefined, <<v>> is v.         *)
(*  - Lengths and coordinates are kept in quarter pixels, so that          *)
(*    cursorSize / 2 and cursorSize / 4 are exact for every integer size.  *)
(*  - The inline style of a node is kept while the node is attached:       *)
(*    nothing reads it after the node is detached.                         *)
(***************************************************************************)
EXTENDS Integers, Sequences, FiniteSets

VARIABLES
    style,                    \* let style: HTMLStyleElement | null
    cursor,                   \* let cursor: HTMLDivElement | null
    trail,                    \* let trail: HTMLDivElement[]
    boundUpdateMousePosition, \* let boundUpdateMousePosition: listener | null
    headStyles,               \* style nodes attached to document.head
    bodyCursors,              \* overlay nodes attached to document.body
    bodyDots,                 \* trail-dot nodes attached to document.body
    listeners,                \* mousemove listeners subscribed on document
    textContent,              \* style node -> its textContent
    transform,                \* overlay node -> its style.transform
    dotPos,                   \* dot node -> its style.left / style.top
    timers,                   \* dots whose setTimeout callback is pending
    settings,                 \* the option values held by the settings store
    settingsAvail,            \* Settings.plugins.MouseOverlay is defined
    bodyPresent,              \* document.body is non-null
    hostStarted,              \* the host's record that start() was called last
    lastOp,                   \* history: the operation that produced this state
    updateStylesCalled,       \* history: that operation called updateStyles()
    error,                    \* history: that operation threw a TypeError
    burst                     \* history: handler calls that spawned a dot since
                              \* the queue was empty, nothing else in between

vars == <<style, cursor, trail, boundUpdateMousePosition, headStyles,
          bodyCursors, bodyDots, listeners, textContent, transform, dotPos,
          timers, settings, settingsAvail, bodyPresent, hostStarted, lastOp,
          updateStylesCalled, error, burst>>

(***************************************************************************)
(* Bounds of the model.                                                    *)
(***************************************************************************)
MaxNodes == 2      \* style / overlay / listener identities in existence
MaxDots == 4       \* trail dots whose timer is pending at one time

StyleIds == 1..MaxNodes
CursorIds == 1..MaxNodes
ListenerIds == 1..MaxNodes
DotIds == 1..MaxDots

NoNode == 0

(***************************************************************************)
(* Program constants.                                                      *)
(***************************************************************************)
CURSOR_URL == "https://github.com/Aitoner/MouseOverlay-Cursors/blob/main/Cursors/ntts.png?raw=true"

defaultSettings ==
    [cursorSize |-> 20, cursorColor |-> "#ffffff", trailEnabled |-> FALSE,
     trailColor |-> "#ffffff", trailLength |-> 5, cursorStyle |-> "circle"]

OptionNames ==
    {"cursorStyle", "cursorSize", "cursorColor", "trailEnabled", "trailColor",
     "trailLength"}

\* Mutant of HasOnChange: every option but trailLength has the callback.
HasOnChangeButLength(name) == name # "trailLength"

\* Mutant of HasOnChange: every option rebuilds the stylesheet.
HasOnChangeAll(name) == TRUE

\* Mutant of HasOnChange: trailColor has lost its callback.
HasOnChangeNoTrailColor(name) ==
    name \in {"cursorStyle", "cursorSize", "cursorColor"}

\* The options whose descriptor carries an onChange callback.
HasOnChange(name) ==
    name \in {"cursorStyle", "cursorSize", "cursorColor", "trailColor"}

(***************************************************************************)
(* The values the settings store is driven with.                           *)
(***************************************************************************)
OptionValues ==
    [cursorStyle  |-> {<<>>, <<"custom">>},
     cursorSize   |-> {<<>>, <<8>>, <<20>>},
     cursorColor  |-> {<<>>, <<"#ff0000">>},
     trailEnabled |-> {<<>>, <<FALSE>>, <<TRUE>>},
     trailColor   |-> {<<>>, <<"#00ff00">>},
     trailLength  |-> {<<>>, <<1>>, <<2>>, <<3>>}]

SettingsValues ==
    [cursorStyle : OptionValues.cursorStyle,
     cursorSize : OptionValues.cursorSize,
     cursorColor : OptionValues.cursorColor,
     trailEnabled : OptionValues.trailEnabled,
     trailColor : OptionValues.trailColor,
     trailLength : OptionValues.trailLength]

\* The pointer coordinates (clientX, clientY) of the mousemove events.
Points == {<<100, 100>>, <<3, 7>>}

\* Runs about the lifecycle and the trail: the pointer stays at one place and
\* cursorSize keeps its default, so that every dot is placed alike; of the
\* options that feed the stylesheet, cursorColor changes.
TrailPoints == {<<100, 100>>}

TrailOptionNames == {"trailEnabled", "trailLength", "cursorColor"}

TrailSettings ==
    {s \in SettingsValues :
        s.cursorSize = <<>> /\ s.cursorStyle = <<>> /\ s.trailColor = <<>>}

(***************************************************************************)
(* Helpers.                                                                *)
(***************************************************************************)
\* v ?? d
OrDefault(v, d) == IF v = <<>> THEN d ELSE v[1]

Range(s) == {s[i] : i \in 1..Len(s)}

Min(S) == CHOOSE x \in S : \A y \in S : x <= y

\* Mutant of Truthy: the trailEnabled test is dropped.
TruthyAlways(v) == TRUE

\* if (v) ...
Truthy(v) == v = <<TRUE>>

\* Mutant of AppendChild: the node is created and never attached.
AppendChildNothing(children, node) == children

\* parent.appendChild(node)
AppendChild(children, node) == children \cup {node}

\* Mutant of ParentNode: ref.parentNode, which throws on a null reference.
ParentNodeUnguarded(ref, children) ==
    [attached |-> ref \in children, threw |-> ref = NoNode]

\* ref?.parentNode: whether the test passes, and whether evaluating it throws.
ParentNode(ref, children) ==
    [attached |-> ref # NoNode /\ ref \in children, threw |-> FALSE]

\* Mutant of Remove: the node stays attached.
RemoveNothing(children, node) == children

\* node.remove(), a no-op on a node that is not attached
Remove(children, node) == children \ {node}

\* Mutant of RemoveEventListener: the listener stays subscribed.
RemoveEventListenerNothing(ls, l) == ls

\* document.removeEventListener("mousemove", l)
RemoveEventListener(ls, l) == ls \ {l}

\* document.addEventListener("mousemove", l)
AddEventListener(ls, l) == ls \cup {l}

\* Mutant of Without: trail.shift() in the place of the filter.
WithoutShift(s, dot) == IF s = <<>> THEN <<>> ELSE Tail(s)

\* trail.filter(d => d !== dot)
RECURSIVE Without(_, _)
Without(s, dot) ==
    IF s = <<>> THEN <<>>
    ELSE IF Head(s) = dot THEN Without(Tail(s), dot)
         ELSE <<Head(s)>> \o Without(Tail(s), dot)


(***************************************************************************)
(* updateStyles: the text assigned to style.textContent.  The rules that   *)
(* do not depend on the settings (cursor: none, position, z-index, ...)    *)
(* are the same in every text and are left out; widths and heights are in  *)
(* quarter pixels.                                                         *)
(***************************************************************************)
\* Mutant of OverlayBackground: the image rule carries the colour too.
OverlayBackgroundTinted(cursorStyle, cursorColor) ==
    IF cursorStyle = "circle"
    THEN <<"background-color", cursorColor, "border-radius: 50%">>
    ELSE <<"background-image", CURSOR_URL, "contain no-repeat center",
           "background-color", cursorColor>>

\* ${cursorStyle === 'circle' ? ... : ...}
OverlayBackground(cursorStyle, cursorColor) ==
    IF cursorStyle = "circle"
    THEN <<"background-color", cursorColor, "border-radius: 50%">>
    ELSE <<"background-image", CURSOR_URL, "contain no-repeat center">>

StyleText(s) ==
    LET cursorSize == OrDefault(s.cursorSize, defaultSettings.cursorSize)
        cursorColor == OrDefault(s.cursorColor, defaultSettings.cursorColor)
        trailColor == OrDefault(s.trailColor, defaultSettings.trailColor)
        cursorStyle == OrDefault(s.cursorStyle, defaultSettings.cursorStyle)
    IN  << [selector |-> "#vencord-mouse-overlay",
            width |-> 4 * cursorSize,
            height |-> 4 * cursorSize,
            background |-> OverlayBackground(cursorStyle, cursorColor)],
           [selector |-> ".mouse-trail",
            width |-> 2 * cursorSize,
            height |-> 2 * cursorSize,
            background |-> <<"background-color", trailColor, "border-radius: 50%">>] >>

\* Mutant of SettingsMissing: the snapshot is never tested.
SettingsMissingNever == FALSE

\* const settings = Settings.plugins.MouseOverlay; if (!settings) return;
SettingsMissing == ~settingsAvail

\* updateStyles(): the textContent function after the call, the store holding s.
UpdateStyles(st, s, tc) ==
    IF st = NoNode THEN tc
    ELSE IF SettingsMissing THEN tc
    ELSE [tc EXCEPT ![st] = StyleText(s)]

(***************************************************************************)
(* updateMousePosition(e), on the part of the state it touches:            *)
(* d = [transform, bodyDots, trail, timers, dotPos].                       *)
(***************************************************************************)
\* document.createElement("div"): a node no reference holds.
FreeDots(d) == DotIds \ (d.timers \cup d.bodyDots \cup Range(d.trail))

NewDot(d) == Min(FreeDots(d))

\* translate(${e.clientX - cursorSize / 2}px, ${e.clientY - cursorSize / 2}px)
OverlayTransform(e, cursorSize) ==
    <<4 * e[1] - 2 * cursorSize, 4 * e[2] - 2 * cursorSize>>

\* Mutant of DotLeftTop: the dot is offset by half the size, like the overlay.
DotLeftTopHalf(e, cursorSize) ==
    <<4 * e[1] - 2 * cursorSize, 4 * e[2] - 2 * cursorSize>>

\* left = e.clientX - cursorSize / 4, top = e.clientY - cursorSize / 4
DotLeftTop(e, cursorSize) ==
    <<4 * e[1] - cursorSize, 4 * e[2] - cursorSize>>

\* Mutant of Evict: the test is off by one.
EvictOffByOne(d, trailLength) ==
    IF Len(d.trail) > trailLength + 1
    THEN [d EXCEPT !.bodyDots = Remove(@, d.trail[1]),
                   !.trail = Tail(@),
                   !.dotPos[d.trail[1]] = <<>>]
    ELSE d

\* Mutant of Evict: nothing is ever evicted.
EvictNever(d, trailLength) == d

\* Mutant of Evict: the newest dot goes, trail.pop() for trail.shift().
EvictNewest(d, trailLength) ==
    IF Len(d.trail) > trailLength
    THEN [d EXCEPT !.bodyDots = Remove(@, d.trail[Len(d.trail)]),
                   !.trail = SubSeq(@, 1, Len(@) - 1),
                   !.dotPos[d.trail[Len(d.trail)]] = <<>>]
    ELSE d

\* Mutant of Evict: the head leaves the queue and stays attached.
EvictKeepsNode(d, trailLength) ==
    IF Len(d.trail) > trailLength
    THEN [d EXCEPT !.trail = Tail(@)]
    ELSE d

\* if (trail.length > trailLength) { if (trail[0]?.parentNode) trail[0].remove(); trail.shift(); }
Evict(d, trailLength) ==
    IF Len(d.trail) > trailLength
    THEN [d EXCEPT !.bodyDots = IF ParentNode(d.trail[1], @).attached
                                THEN Remove(@, d.trail[1]) ELSE @,
                   !.trail = Tail(@),
                   \* nothing reads the style of a node once it is detached
                   !.dotPos[d.trail[1]] = <<>>]
    ELSE d

SpawnDot(d, e, cursorSize) ==
    LET dot == NewDot(d)
        pushed == [d EXCEPT !.dotPos[dot] = DotLeftTop(e, cursorSize),
                            !.bodyDots = AppendChild(@, dot),
                            !.trail = Append(@, dot)]
        evicted == Evict(pushed,
                     OrDefault(settings.trailLength, defaultSettings.trailLength))
    IN  [evicted EXCEPT !.timers = @ \cup {dot}]

UpdateMousePosition(d, e) ==
    IF cursor = NoNode THEN d
    ELSE IF SettingsMissing THEN d
    ELSE LET cursorSize == OrDefault(settings.cursorSize, defaultSettings.cursorSize)
             moved == [d EXCEPT !.transform[cursor] = OverlayTransform(e, cursorSize)]
         IN  IF Truthy(settings.trailEnabled)
             THEN SpawnDot(moved, e, cursorSize)
             ELSE moved

\* The handler runs once for every listener subscribed on document.
RECURSIVE Dispatch(_, _, _)
Dispatch(d, e, n) ==
    IF n = 0 THEN d ELSE Dispatch(UpdateMousePosition(d, e), e, n - 1)

\* The dots n calls of the handler create.
DotsNeeded(n) ==
    IF cursor # NoNode /\ ~SettingsMissing /\ Truthy(settings.trailEnabled)
    THEN n ELSE 0

DomState ==
    [transform |-> transform, bodyDots |-> bodyDots, trail |-> trail,
     timers |-> timers, dotPos |-> dotPos]

\* Mutant of DetachAll: stop() forgets the dots.
DetachAllNothing(children, tr) == children

\* trail.forEach(dot => dot?.parentNode?.removeChild(dot))
DetachAll(children, tr) == children \ Range(tr)

(***************************************************************************)
(* Initial state: the module's top-level declarations, a settings store    *)
(* holding option values of S, a document with or without a body.          *)
(***************************************************************************)
InitWith(S) ==
    /\ style = NoNode
    /\ cursor = NoNode
    /\ trail = <<>>
    /\ boundUpdateMousePosition = NoNode
    /\ headStyles = {}
    /\ bodyCursors = {}
    /\ bodyDots = {}
    /\ listeners = {}
    /\ textContent = [i \in StyleIds |-> <<>>]
    /\ transform = [i \in CursorIds |-> <<>>]
    /\ dotPos = [i \in DotIds |-> <<>>]
    /\ timers = {}
    /\ settings \in S
    /\ settingsAvail \in BOOLEAN
    /\ bodyPresent \in BOOLEAN
    /\ hostStarted = FALSE
    /\ lastOp = [op |-> "init", arg |-> "", e |-> <<>>]
    /\ updateStylesCalled = FALSE
    /\ error = FALSE
    /\ burst = 0

(***************************************************************************)
(* start()                                                                 *)
(***************************************************************************)
\* Mutant of CanStart: the body is never tested.
CanStartAlways == TRUE

\* Mutant of CanStart: start() returns when an overlay exists already.
CanStartOnce == bodyPresent /\ cursor = NoNode

\* if (!document.body) return;
CanStart == bodyPresent

Start ==
    /\ hostStarted' = TRUE
    /\ lastOp' = [op |-> "start", arg |-> IF bodyPresent THEN "body" ELSE "nobody",
                  e |-> <<>>]
    /\ updateStylesCalled' = CanStart
    /\ error' = FALSE
    /\ burst' = 0
    /\ IF ~CanStart
       THEN UNCHANGED <<style, cursor, boundUpdateMousePosition, headStyles,
                        bodyCursors, listeners, textContent, transform>>
       ELSE /\ StyleIds \ (headStyles \cup {style}) # {}
            /\ CursorIds \ (bodyCursors \cup {cursor}) # {}
            /\ ListenerIds \ (listeners \cup {boundUpdateMousePosition}) # {}
            /\ LET newStyle == Min(StyleIds \ (headStyles \cup {style}))
                   newCursor == Min(CursorIds \ (bodyCursors \cup {cursor}))
                   newBound ==
                       Min(ListenerIds \ (listeners \cup {boundUpdateMousePosition}))
               IN  /\ style' = newStyle
                   /\ cursor' = newCursor
                   /\ headStyles' = AppendChild(headStyles, newStyle)
                   /\ bodyCursors' = AppendChild(bodyCursors, newCursor)
                   /\ textContent' =
                        UpdateStyles(newStyle, settings,
                                     [textContent EXCEPT ![newStyle] = <<>>])
                   /\ transform' = [transform EXCEPT ![newCursor] = <<>>]
                   /\ boundUpdateMousePosition' = newBound
                   /\ listeners' = AddEventListener(listeners, newBound)
    /\ UNCHANGED <<trail, bodyDots, dotPos, timers, settings, settingsAvail,
                   bodyPresent>>

\* The host calls start() only on a plugin it has not started.
HostStart == ~hostStarted /\ Start

(***************************************************************************)
(* stop().  A TypeError on a line leaves the lines after it undone.        *)
(***************************************************************************)
Inactive ==
    /\ style = NoNode
    /\ cursor = NoNode
    /\ boundUpdateMousePosition = NoNode
    /\ trail = <<>>

Stop ==
    LET st == ParentNode(style, headStyles)
        cu == ParentNode(cursor, bodyCursors)
        threw == st.threw \/ cu.threw
    IN  /\ hostStarted' = FALSE
        /\ lastOp' = [op |-> "stop",
                      arg |-> IF Inactive THEN "inactive" ELSE "active", e |-> <<>>]
        /\ updateStylesCalled' = FALSE
        /\ error' = threw
        /\ burst' = 0
        /\ listeners' = IF boundUpdateMousePosition # NoNode
                        THEN RemoveEventListener(listeners, boundUpdateMousePosition)
                        ELSE listeners
        /\ boundUpdateMousePosition' = NoNode
        /\ headStyles' = IF ~st.threw /\ st.attached
                         THEN Remove(headStyles, style) ELSE headStyles
        /\ bodyCursors' = IF ~threw /\ cu.attached
                          THEN Remove(bodyCursors, cursor) ELSE bodyCursors
        /\ bodyDots' = IF threw THEN bodyDots ELSE DetachAll(bodyDots, trail)
        /\ trail' = IF threw THEN trail ELSE <<>>
        /\ style' = IF threw THEN style ELSE NoNode
        /\ cursor' = IF threw THEN cursor ELSE NoNode
        \* the nodes the dropped references held are unreachable from here on
        /\ textContent' = IF threw \/ style = NoNode THEN textContent
                          ELSE [textContent EXCEPT ![style] = <<>>]
        /\ transform' = IF threw \/ cursor = NoNode THEN transform
                        ELSE [transform EXCEPT ![cursor] = <<>>]
        /\ dotPos' = IF threw THEN dotPos
                      ELSE [i \in DotIds |->
                              IF i \in Range(trail) THEN <<>> ELSE dotPos[i]]
        /\ UNCHANGED <<timers, settings, settingsAvail, bodyPresent>>

(***************************************************************************)
(* A mousemove event on document: every subscribed listener handles it.    *)
(***************************************************************************)
MouseMove(e) ==
    /\ listeners # {}
    /\ Cardinality(FreeDots(DomState)) >= DotsNeeded(Cardinality(listeners))
    /\ LET d == Dispatch(DomState, e, Cardinality(listeners))
       IN  /\ transform' = d.transform
           /\ bodyDots' = d.bodyDots
           /\ trail' = d.trail
           /\ timers' = d.timers
           /\ dotPos' = d.dotPos
    /\ lastOp' = [op |-> "mousemove",
                  arg |-> IF DotsNeeded(1) = 1 THEN "trail" ELSE "notrail",
                  e |-> e]
    /\ updateStylesCalled' = FALSE
    /\ error' = FALSE
    /\ burst' = LET n == DotsNeeded(Cardinality(listeners))
                IN  IF n = 0 THEN 0
                    ELSE IF trail = <<>> THEN n
                    ELSE IF burst > 0 THEN burst + n
                    ELSE 0
    /\ UNCHANGED <<style, cursor, boundUpdateMousePosition, headStyles,
                   bodyCursors, listeners, textContent, settings, settingsAvail,
                   bodyPresent, hostStarted>>

(***************************************************************************)
(* The setTimeout callback of dot.                                         *)
(***************************************************************************)
TimerFire(dot) ==
    /\ dot \in timers
    /\ timers' = timers \ {dot}
    /\ bodyDots' = IF ParentNode(dot, bodyDots).attached
                   THEN Remove(bodyDots, dot) ELSE bodyDots
    /\ trail' = Without(trail, dot)
    /\ dotPos' = [dotPos EXCEPT ![dot] = <<>>]
    /\ lastOp' = [op |-> "timer",
                  arg |-> IF dot \in bodyDots THEN "attached" ELSE "detached",
                  e |-> <<>>]
    /\ updateStylesCalled' = FALSE
    /\ error' = ParentNode(dot, bodyDots).threw
    /\ burst' = 0
    /\ UNCHANGED <<style, cursor, boundUpdateMousePosition, headStyles,
                   bodyCursors, listeners, textContent, transform, settings,
                   settingsAvail, bodyPresent, hostStarted>>

(***************************************************************************)
(* The host stores a new value of an option and runs the option's          *)
(* onChange callback, if it has one, with the plugin as its receiver.      *)
(***************************************************************************)
ChangeOption(name, value) ==
    /\ settingsAvail
    /\ settings[name] # value
    /\ settings' = [settings EXCEPT ![name] = value]
    /\ textContent' = IF HasOnChange(name)
                      THEN UpdateStyles(style, settings', textContent)
                      ELSE textContent
    /\ lastOp' = [op |-> "change", arg |-> name, e |-> <<>>]
    /\ updateStylesCalled' = HasOnChange(name)
    /\ error' = FALSE
    /\ burst' = IF name \in {"trailEnabled", "trailLength"} THEN 0 ELSE burst
    /\ UNCHANGED <<style, cursor, trail, boundUpdateMousePosition, headStyles,
                   bodyCursors, bodyDots, listeners, transform, dotPos, timers,
                   settingsAvail, bodyPresent, hostStarted>>

(***************************************************************************)
(* The environment: the settings store creates the plugin's snapshot, the  *)
(* document gets its body.                                                 *)
(***************************************************************************)
SettingsAppear ==
    /\ ~settingsAvail
    /\ settingsAvail' = TRUE
    /\ lastOp' = [op |-> "env", arg |-> "settings", e |-> <<>>]
    /\ updateStylesCalled' = FALSE
    /\ error' = FALSE
    /\ UNCHANGED <<style, cursor, trail, boundUpdateMousePosition, headStyles,
                   bodyCursors, bodyDots, listeners, textContent, transform,
                   dotPos, timers, settings, bodyPresent, hostStarted, burst>>

BodyAppears ==
    /\ ~bodyPresent
    /\ bodyPresent' = TRUE
    /\ lastOp' = [op |-> "env", arg |-> "body", e |-> <<>>]
    /\ updateStylesCalled' = FALSE
    /\ error' = FALSE
    /\ UNCHANGED <<style, cursor, trail, boundUpdateMousePosition, headStyles,
                   bodyCursors, bodyDots, listeners, textContent, transform,
                   dotPos, timers, settings, settingsAvail, hostStarted, burst>>

(***************************************************************************)
(* Spec: the lifecycle and the trail.  The host pairs start() and stop().  *)
(***************************************************************************)
Init == InitWith(TrailSettings)

Next ==
    \/ HostStart
    \/ Stop
    \/ \E e \in TrailPoints : MouseMove(e)
    \/ \E dot \in DotIds : TimerFire(dot)
    \/ \E name \in TrailOptionNames : \E value \in OptionValues[name] :
           ChangeOption(name, value)
    \/ SettingsAppear
    \/ BodyAppears

Spec == Init /\ [][Next]_vars

(***************************************************************************)
(* LiveSpec: the trail under the options that drive it, in a document with *)
(* a body and a settings snapshot, every scheduled timer firing in the end *)
(* (setTimeout is never cancelled).                                        *)
(***************************************************************************)
LiveOptionValues ==
    [trailEnabled |-> {<<FALSE>>, <<TRUE>>},
     trailLength  |-> {<<>>, <<1>>, <<2>>}]

LiveSettings ==
    {s \in TrailSettings :
        /\ s.cursorColor = <<>>
        /\ s.trailEnabled \in LiveOptionValues.trailEnabled
        /\ s.trailLength \in LiveOptionValues.trailLength}

InitLive == InitWith(LiveSettings) /\ settingsAvail /\ bodyPresent

NextLive ==
    \/ HostStart
    \/ Stop
    \/ \E e \in TrailPoints : MouseMove(e)
    \/ \E dot \in DotIds : TimerFire(dot)
    \/ \E name \in DOMAIN LiveOptionValues :
           \E value \in LiveOptionValues[name] : ChangeOption(name, value)

LiveSpec ==
    InitLive /\ [][NextLive]_vars /\ \A dot \in DotIds : WF_vars(TimerFire(dot))

(***************************************************************************)
(* SpecStyle: the stylesheet under every option, no pointer events.        *)
(***************************************************************************)
InitStyle == InitWith(SettingsValues)

NextStyle ==
    \/ HostStart
    \/ Stop
    \/ \E name \in OptionNames : \E value \in OptionValues[name] :
           ChangeOption(name, value)
    \/ SettingsAppear
    \/ BodyAppears

SpecStyle == InitStyle /\ [][NextStyle]_vars

(***************************************************************************)
(* SpecDouble: a host that does not pair its calls, so that start() may    *)
(* run on a started plugin and stop() may leave a listener behind.         *)
(***************************************************************************)
DoubleOptionNames == {"cursorColor", "trailEnabled"}

DoubleSettings ==
    {s \in TrailSettings :
        /\ s.trailLength = <<2>>
        /\ s.trailEnabled \in {<<>>, <<TRUE>>}}

InitDouble == InitWith(DoubleSettings)

NextDouble ==
    \/ Start
    \/ Stop
    \/ \E e \in TrailPoints : MouseMove(e)
    \/ \E dot \in DotIds : TimerFire(dot)
    \/ \E name \in DoubleOptionNames : \E value \in OptionValues[name] :
           ChangeOption(name, value)
    \/ SettingsAppear
    \/ BodyAppears

SpecDouble == InitDouble /\ [][NextDouble]_vars

(***************************************************************************)
(* SpecPos: the placement of the overlay and of the dots, under every      *)
(* cursorSize and pointer position.                                        *)
(***************************************************************************)
PosOptionNames == {"cursorSize", "trailEnabled"}

PosSettings ==
    {s \in SettingsValues :
        /\ s.cursorStyle = <<>> /\ s.cursorColor = <<>> /\ s.trailColor = <<>>
        /\ s.trailLength = <<2>>}

InitPos == InitWith(PosSettings)

NextPos ==
    \/ HostStart
    \/ Stop
    \/ \E e \in Points : MouseMove(e)
    \/ \E dot \in DotIds : TimerFire(dot)
    \/ \E name \in PosOptionNames : \E value \in OptionValues[name] :
           ChangeOption(name, value)
    \/ SettingsAppear
    \/ BodyAppears

SpecPos == InitPos /\ [][NextPos]_vars

(***************************************************************************)
(* The claims.                                                             *)
(***************************************************************************)
TrailLength == OrDefault(settings.trailLength, defaultSettings.trailLength)

CursorSize == OrDefault(settings.cursorSize, defaultSettings.cursorSize)

Max(a, b) == IF a >= b THEN a ELSE b

\* C1: when stop() returns, no overlay node, no stylesheet node and no trail
\* dot is attached, and the trail queue is empty (start and stop paired).
C1_StopCleansUp ==
    lastOp.op = "stop" =>
        /\ headStyles = {}
        /\ bodyCursors = {}
        /\ bodyDots = {}
        /\ trail = <<>>

\* stop() has run on a started overlay whose dots still have timers pending.
C1_Witness ==
    /\ lastOp.op = "stop"
    /\ lastOp.arg = "active"
    /\ Cardinality(timers) >= 2

\* C2 as stated: the queue is never longer than the current trailLength.
C2_QueueWithinLength == Len(trail) <= TrailLength

\* C2, amended: a step that does not leave trailLength below the length the
\* queue had before it ends with the queue within trailLength, and no step
\* makes a queue that is longer than trailLength any longer.
C2_QueueWithinLengthUnlessLowered ==
    [][ /\ TrailLength' >= Len(trail) => Len(trail') <= TrailLength'
        /\ Len(trail') <= Max(Len(trail), TrailLength') ]_vars

\* A pointer-move has evicted the head to keep the queue at trailLength.
C2_Witness ==
    /\ lastOp.op = "mousemove"
    /\ TrailLength = 1
    /\ Len(trail) = 1
    /\ Cardinality(timers) >= 2

\* C3: every dot that is attached or queued is in the end neither attached
\* nor queued, its timer having fired.
C3_DotEventuallyRemoved ==
    \A dot \in DotIds :
        (dot \in bodyDots \cup Range(trail)) ~>
            (dot \notin timers \cup bodyDots \cup Range(trail))

\* A timer has fired for a dot that was still attached: it was not evicted.
C3_Witness ==
    /\ lastOp.op = "timer"
    /\ lastOp.arg = "attached"
    /\ bodyDots = {}

\* C4: after more than trailLength = N >= 1 pointer-moves from an empty
\* queue, no timer firing in between, the queue holds exactly N dots and at
\* most N dots plus the evicted ones awaiting their timers are attached.
C4_BurstFillsQueue ==
    (burst > TrailLength /\ TrailLength >= 1) =>
        /\ Len(trail) = TrailLength
        /\ Cardinality(bodyDots) <=
               TrailLength + Cardinality(timers \ Range(trail))

\* Four pointer-moves in a row with trailLength 2.
C4_Witness ==
    /\ burst = 4
    /\ TrailLength = 2
    /\ cursor # NoNode

\* C5: when start() returns, having found a document body, exactly one
\* stylesheet node and exactly one overlay node are attached, the ones the
\* module refers to.
C5_StartAttachesOne ==
    (lastOp.op = "start" /\ lastOp.arg = "body") =>
        /\ style # NoNode
        /\ headStyles = {style}
        /\ cursor # NoNode
        /\ bodyCursors = {cursor}

\* start() has returned under the custom style and a non-default size.
C5_Witness ==
    /\ lastOp.op = "start"
    /\ lastOp.arg = "body"
    /\ settings.cursorStyle = <<"custom">>
    /\ settings.cursorSize = <<8>>

\* C6: stop() in the INACTIVE state throws nothing and changes nothing: there
\* is still no stylesheet node, no overlay node, no listener and no queued
\* dot, and the attached nodes and the pending timers are the same.
C6_StopInactiveNoop ==
    [][ (lastOp'.op = "stop" /\ Inactive) =>
            /\ ~error'
            /\ Inactive'
            /\ headStyles' = {} /\ bodyCursors' = {} /\ listeners' = {}
            /\ UNCHANGED <<style, cursor, trail, boundUpdateMousePosition,
                           headStyles, bodyCursors, bodyDots, listeners,
                           textContent, transform, dotPos, timers, settings,
                           settingsAvail, bodyPresent>> ]_vars

\* stop() has run in the INACTIVE state, timers of an earlier run pending.
C6_Witness ==
    /\ lastOp.op = "stop"
    /\ lastOp.arg = "inactive"
    /\ timers # {}

\* C7: a pointer-move handled while trailEnabled is not true creates no dot,
\* schedules no timer and leaves the queue as it is.
C7_NoTrailWhenDisabled ==
    [][ (lastOp'.op = "mousemove" /\ settings.trailEnabled # <<TRUE>>) =>
            UNCHANGED <<bodyDots, trail, timers, dotPos>> ]_vars

\* A pointer-move has moved the overlay with the trail disabled.
C7_Witness ==
    /\ lastOp.op = "mousemove"
    /\ settingsAvail
    /\ settings.trailEnabled = <<FALSE>>
    /\ cursor # NoNode
    /\ transform[cursor] # <<>>
    /\ bodyDots = {}

\* C8 as stated: a change of an option calls updateStyles() exactly when the
\* option is not trailLength.
C8_RebuildButTrailLength ==
    lastOp.op = "change" => (updateStylesCalled <=> lastOp.arg # "trailLength")

\* C8, amended: a change of cursorStyle, cursorSize, cursorColor or
\* trailColor calls updateStyles(), which leaves the stylesheet equal to the
\* text of the new settings; a change of trailEnabled or trailLength does not
\* call it.
C8_RebuildOnStyleOptions ==
    lastOp.op = "change" =>
        /\ updateStylesCalled <=>
               lastOp.arg \in {"cursorStyle", "cursorSize", "cursorColor",
                               "trailColor"}
        /\ (updateStylesCalled /\ style # NoNode) =>
               textContent[style] = StyleText(settings)

\* trailEnabled has changed on a started overlay, without a rebuild.
C8_Witness ==
    /\ lastOp.op = "change"
    /\ lastOp.arg = "trailEnabled"
    /\ ~updateStylesCalled
    /\ style # NoNode

\* C9: a handled pointer-move at (x, y) under a cursor size s that is a
\* multiple of 4 puts the overlay at (x - s/2, y - s/2) and the spawned dot
\* at (x - s/4, y - s/4); with no cursorSize stored, s is 20, and (100, 100)
\* gives (90, 90) and (95, 95).
C9_Placement ==
    (lastOp.op = "mousemove" /\ cursor # NoNode /\ settingsAvail) =>
        LET s == CursorSize
            x == lastOp.e[1]
            y == lastOp.e[2]
            spawned == lastOp.arg = "trail"
        IN  /\ s % 4 = 0 =>
                /\ transform[cursor] = <<4 * (x - s \div 2), 4 * (y - s \div 2)>>
                /\ spawned =>
                      /\ trail # <<>>
                      /\ dotPos[trail[Len(trail)]] =
                             <<4 * (x - s \div 4), 4 * (y - s \div 4)>>
            /\ (settings.cursorSize = <<>> /\ lastOp.e = <<100, 100>>) =>
                /\ transform[cursor] = <<4 * 90, 4 * 90>>
                /\ spawned => dotPos[trail[Len(trail)]] = <<4 * 95, 4 * 95>>

\* A pointer-move at (100, 100) has spawned a dot with no cursorSize stored.
C9_Witness ==
    /\ lastOp.op = "mousemove"
    /\ lastOp.arg = "trail"
    /\ lastOp.e = <<100, 100>>
    /\ settings.cursorSize = <<>>
    /\ cursor # NoNode

\* C10: after a rebuild under a cursorStyle other than "circle", the overlay
\* rule is the one every other cursorColor would have produced, and its image
\* is CURSOR_URL.
C10_ImageIgnoresColor ==
    (/\ updateStylesCalled /\ style # NoNode /\ settingsAvail
     /\ OrDefault(settings.cursorStyle, defaultSettings.cursorStyle) # "circle") =>
        /\ \A c \in OptionValues.cursorColor :
               textContent[style][1] =
                   StyleText([settings EXCEPT !.cursorColor = c])[1]
        /\ textContent[style][1].background[1] = "background-image"
        /\ textContent[style][1].background[2] = CURSOR_URL

\* cursorColor has changed under the custom style on a started overlay.
C10_Witness ==
    /\ lastOp.op = "change"
    /\ lastOp.arg = "cursorColor"
    /\ settings.cursorColor = <<"#ff0000">>
    /\ settings.cursorStyle = <<"custom">>
    /\ style # NoNode

\* INACTIVE: no reference held, nothing attached, nothing subscribed.
InactiveState ==
    /\ style = NoNode /\ headStyles = {}
    /\ cursor = NoNode /\ bodyCursors = {}
    /\ boundUpdateMousePosition = NoNode /\ listeners = {}

\* ACTIVE: the one stylesheet node and the one overlay node attached, the one
\* listener subscribed.
ActiveState ==
    /\ style # NoNode /\ headStyles = {style}
    /\ cursor # NoNode /\ bodyCursors = {cursor}
    /\ boundUpdateMousePosition # NoNode
    /\ listeners = {boundUpdateMousePosition}

\* C11 as stated: the state is INACTIVE or ACTIVE, start() is called in
\* INACTIVE and ends in ACTIVE, stop() ends in INACTIVE.
C11_TwoStates ==
    /\ InactiveState \/ ActiveState
    /\ ~hostStarted => InactiveState
    /\ lastOp.op = "start" => ActiveState
    /\ lastOp.op = "stop" => InactiveState

\* C11, amended: the state is INACTIVE or ACTIVE, never a mix; start() is
\* called in INACTIVE and ends in ACTIVE when the document has a body, in
\* INACTIVE when it has none; stop() ends in INACTIVE.
C11_TwoStatesBodyPresent ==
    /\ InactiveState \/ ActiveState
    /\ ~(InactiveState /\ ActiveState)
    /\ ~hostStarted => InactiveState
    /\ (lastOp.op = "start" /\ lastOp.arg = "body") => ActiveState
    /\ (lastOp.op = "start" /\ lastOp.arg = "nobody") => InactiveState
    /\ lastOp.op = "stop" => InactiveState

\* A second start(), after a stop() that left timers pending, is ACTIVE.
C11_Witness ==
    /\ lastOp.op = "start"
    /\ ActiveState
    /\ timers # {}

\* C12: a timer callback throws nothing, detaches and dequeues no dot but its
\* own, and changes neither the attached nodes nor the queue when its dot was
\* evicted or swept by stop() before.
C12_TimerIdempotent ==
    [][ lastOp'.op = "timer" =>
          \E dot \in timers \ timers' :
            /\ timers' = timers \ {dot}
            /\ ~error'
            /\ bodyDots \ bodyDots' \subseteq {dot}
            /\ bodyDots' \subseteq bodyDots
            /\ trail' = SelectSeq(trail, LAMBDA d : d # dot)
            /\ dot \notin bodyDots \cup Range(trail) =>
                   UNCHANGED <<bodyDots, trail>>
            /\ UNCHANGED <<headStyles, bodyCursors, listeners, style, cursor>>
      ]_vars

\* The timer of a dot that was detached before has fired on a started
\* overlay with other dots queued.
C12_Witness ==
    /\ lastOp.op = "timer"
    /\ lastOp.arg = "detached"
    /\ cursor # NoNode
    /\ Len(trail) >= 2

\* C13: a pointer-move that spawns a dot appends it at the end of the queue
\* and then removes nothing, or, the queue being longer than trailLength,
\* the head alone, from the queue and from the surface; every other step
\* keeps the queued dots in their order.  So the queue is in spawn order.
C13_OldestEvictedFirst ==
    [][ /\ (lastOp'.op = "mousemove" /\ lastOp'.arg = "trail") =>
              \E dot \in DotIds \ (Range(trail) \cup bodyDots) :
                  LET pushed == Append(trail, dot)
                      attached == bodyDots \cup {dot}
                  IN  \/ /\ Len(pushed) <= TrailLength
                         /\ trail' = pushed
                         /\ bodyDots' = attached
                      \/ /\ Len(pushed) > TrailLength
                         /\ trail' = Tail(pushed)
                         /\ bodyDots' = attached \ {pushed[1]}
        /\ ~(lastOp'.op = "mousemove" /\ lastOp'.arg = "trail") =>
              trail' = SelectSeq(trail, LAMBDA d : d \in Range(trail'))
      ]_vars

\* Three pointer-moves in a row under trailLength 2: the first dot is gone,
\* the second and the third are queued in that order.
C13_Witness ==
    /\ lastOp.op = "mousemove"
    /\ burst = 3
    /\ TrailLength = 2
    /\ Len(trail) = 2
    /\ timers \ Range(trail) # {}

\* C14: a change of trailLength runs no style rebuild and leaves the queue,
\* the attached dots, the stylesheet and the pending timers as they were,
\* also when the queue is now longer than the new value; a following
\* pointer-move evicts against the new value.
C14_TrailLengthLazy ==
    [][ /\ (lastOp'.op = "change" /\ lastOp'.arg = "trailLength") =>
              /\ ~updateStylesCalled'
              /\ settings'.trailLength # settings.trailLength
              /\ UNCHANGED <<trail, bodyDots, dotPos, timers, textContent,
                             headStyles, bodyCursors, transform, listeners,
                             style, cursor, boundUpdateMousePosition>>
        /\ (lastOp.op = "change" /\ lastOp.arg = "trailLength"
              /\ lastOp'.op = "mousemove" /\ lastOp'.arg = "trail") =>
              Len(trail') = IF Len(trail) + 1 > TrailLength'
                            THEN Len(trail) ELSE Len(trail) + 1
      ]_vars

\* trailLength has just been lowered below the length of the queue.
C14_Witness ==
    /\ lastOp.op = "change"
    /\ lastOp.arg = "trailLength"
    /\ Len(trail) > TrailLength
    /\ bodyDots = Range(trail)
    /\ style # NoNode

\* C16: start() called while the document has no body creates and attaches
\* no stylesheet or overlay node, subscribes no listener, runs no rebuild,
\* and leaves the component INACTIVE when it was.
C16_StartWithoutBody ==
    [][ (lastOp'.op = "start" /\ ~bodyPresent) =>
            /\ lastOp'.arg = "nobody"
            /\ ~updateStylesCalled'
            /\ ~error'
            /\ UNCHANGED <<style, cursor, trail, boundUpdateMousePosition,
                           headStyles, bodyCursors, bodyDots, listeners,
                           textContent, transform, dotPos, timers>>
            /\ (InactiveState => InactiveState')
      ]_vars

\* start() has returned at the body check.
C16_Witness ==
    /\ lastOp.op = "start"
    /\ lastOp.arg = "nobody"
    /\ InactiveState
    /\ hostStarted

\* C18: in every reachable state the trail dots attached to the surface are
\* exactly the dots of the trail queue, each queued once: an evicted dot is
\* detached when it is evicted, and no queued dot is detached.
C18_AttachedEqualsQueued ==
    /\ bodyDots = Range(trail)
    /\ Cardinality(Range(trail)) = Len(trail)

\* A pointer-move has just evicted a dot whose timer is still pending.
C18_Witness ==
    /\ lastOp.op = "mousemove"
    /\ lastOp.arg = "trail"
    /\ trail # <<>>
    /\ timers \ Range(trail) # {}
    /\ timers \ bodyDots # {}

\* C15: start() on a started plugin adds a second stylesheet node, a second
\* overlay node and a second listener next to the first ones; stop() then
\* removes the nodes and the listener the module variables name, the most
\* recent ones, and the earlier ones stay attached and subscribed.
C15_DoubleStartLeaks ==
    [][ /\ (lastOp'.op = "start" /\ ActiveState) =>
              /\ ~ActiveState'
              /\ Cardinality(headStyles') = 2
              /\ Cardinality(bodyCursors') = 2
              /\ Cardinality(listeners') = 2
              /\ headStyles' = headStyles \cup {style'}
              /\ bodyCursors' = bodyCursors \cup {cursor'}
              /\ listeners' = listeners \cup {boundUpdateMousePosition'}
              /\ style' # style /\ cursor' # cursor
              /\ boundUpdateMousePosition' # boundUpdateMousePosition
        /\ lastOp'.op = "stop" =>
              /\ headStyles' = headStyles \ {style}
              /\ bodyCursors' = bodyCursors \ {cursor}
              /\ listeners' = listeners \ {boundUpdateMousePosition}
              /\ style' = NoNode /\ cursor' = NoNode
              /\ boundUpdateMousePosition' = NoNode
      ]_vars

\* start(), start(), stop(): one node of each kind and one listener are left
\* and no module variable names them.
C15_Witness ==
    /\ lastOp.op = "stop"
    /\ style = NoNode /\ cursor = NoNode /\ boundUpdateMousePosition = NoNode
    /\ Cardinality(headStyles) = 1
    /\ Cardinality(bodyCursors) = 1
    /\ Cardinality(listeners) = 1

\* C17: a pointer-move handled while the settings snapshot is missing or the
\* overlay node is absent leaves the overlay position, the queue, the
\* attached nodes and the pending timers as they were; a rebuild while the
\* snapshot is missing or the stylesheet node is absent writes no stylesheet
\* content; none of them throws.
C17_SilentSkips ==
    [][ /\ (lastOp'.op = "mousemove" /\ (~settingsAvail \/ cursor = NoNode)) =>
              /\ ~error'
              /\ lastOp'.arg = "notrail"
              /\ UNCHANGED <<transform, trail, bodyDots, dotPos, timers,
                             headStyles, bodyCursors, textContent, listeners>>
        /\ (lastOp'.op = "change" /\ updateStylesCalled' /\ style = NoNode) =>
              /\ ~error'
              /\ UNCHANGED <<textContent, headStyles, style>>
        /\ (lastOp'.op = "start" /\ updateStylesCalled' /\ ~settingsAvail) =>
              /\ ~error'
              /\ textContent'[style'] = <<>>
              /\ \A i \in StyleIds \ {style'} : textContent'[i] = textContent[i]
      ]_vars

\* A listener left behind by a double start() has handled a pointer-move
\* after stop(): there is no overlay, and the settings ask for a trail.
C17_Witness ==
    /\ lastOp.op = "mousemove"
    /\ cursor = NoNode
    /\ listeners # {}
    /\ settingsAvail
    /\ Truthy(settings.trailEnabled)
    /\ trail = <<>>

\* C19: the stylesheet of a started overlay is never stale: whatever it
\* holds is the text of the current cursorSize, cursorColor, cursorStyle and
\* trailColor; it holds that text when start() found a settings snapshot and
\* after every change that ran an onChange callback; otherwise it may still
\* be empty, as created.
C19_StylesheetFresh ==
    style # NoNode =>
        /\ textContent[style] \in {<<>>, StyleText(settings)}
        /\ (lastOp.op = "start" /\ settingsAvail) =>
               textContent[style] = StyleText(settings)
        /\ (lastOp.op = "change" /\ updateStylesCalled) =>
               textContent[style] = StyleText(settings)

\* trailColor has changed on a started overlay whose other style options are
\* not the defaults, and the stylesheet has been rebuilt.
C19_Witness ==
    /\ lastOp.op = "change"
    /\ lastOp.arg = "trailColor"
    /\ style # NoNode
    /\ settings.cursorSize = <<8>>
    /\ settings.cursorStyle = <<"custom">>
    /\ settings.trailColor = <<"#00ff00">>
    /\ textContent[style] = StyleText(settings)

=============================================================================
